---- MODULE Spec2Model ----
(***************************************************************************)
(* A model of ag5.py, a Streamlit chat front end that hands a browser task *)
(* to an automation agent.  Streamlit re-executes the script body from the *)
(* top on every user interaction; st.session_state survives the re-runs.   *)
(* The variable pc is the script's position, and every action is one       *)
(* statement (or one run of statements) of the script.                     *)
(*                                                                         *)
(* Text is modelled as a sequence of strings: single characters where the  *)
(* code looks inside the text (directory names are sorted, captured output *)
(* is split into lines), whole tokens elsewhere.  Python's None is the     *)
(* one-token text <<"None">>, which is also what an f-string makes of it.  *)
(***************************************************************************)
EXTENDS Integers, Sequences, FiniteSets, TLC

VARIABLES
    environ,          \* os.environ after load_dotenv(): variable name -> text
    system,           \* platform.system()
    envDirOk,         \* os.path.isdir(CHROME_USER_DATA_DIR)
    listing,          \* what os.listdir(base_user_data) and os.path.isdir give
    pc,               \* position of the script run
    ui,               \* the Streamlit commands this script run has executed
    base_user_data,   \* module global of line 28-37
    profiles,         \* module global of line 103
    picked,           \* the select box's widget state (the user's last pick)
    selected_profile, \* module global of line 105
    user_input,       \* module global of line 114
    messages,         \* st.session_state['messages']
    resp,             \* outcome of the GET of line 54 in this turn
    config,           \* execute_task's local of line 86
    browser,          \* execute_task's browser handle: none, open, closed
    buf,              \* the stdout captured at line 92-93
    logs,             \* the value execute_task returned
    exc,              \* the text of the exception execute_task raised
    turns,            \* history: submissions so far
    calls,            \* history: calls of execute_task so far
    errs,             \* history: calls of execute_task that raised
    probes,           \* history: GETs of /json/version in this turn
    handles,          \* history: browser handles created and not closed
    last_probe,       \* history: whether the previous turn's probe got a 200
    inputs,           \* history: the submitted inputs, in order
    pre               \* history: the transcript when this script run began

vars == <<environ, system, envDirOk, listing, pc, ui, base_user_data, profiles,
          picked, selected_profile, user_input, messages, resp, config, browser,
          buf, logs, exc, turns, calls, errs, probes, handles, last_probe,
          inputs, pre>>

envVars == <<environ, system, envDirOk, listing>>
turnVars == <<resp, config, browser, buf, logs, exc>>

----------------------------------------------------------------------------
(* Bounds of the model *)

\* submissions per session
MaxTurns == 2
\* characters of captured agent output
MaxOutLen == 7
\* entries of the user-data directory
MaxEntries == 3

----------------------------------------------------------------------------
(* Text *)

None == <<"None">>

Truthy(x) == x # None /\ x # <<>>

Min(a, b) == IF a <= b THEN a ELSE b

Max(a, b) == IF a >= b THEN a ELSE b

Range(s) == {s[i] : i \in 1..Len(s)}

IsPrefix(s, t) == Len(s) <= Len(t) /\ SubSeq(t, 1, Len(s)) = s

Contains(s, t) == \E i \in 0..(Len(s) - Len(t)) : SubSeq(s, i + 1, i + Len(t)) = t

SeqsUpTo(S, n) == UNION {[1..k -> S] : k \in 0..n}

\* code points of the characters that occur in the directory names
ord == [c \in {"A", "D", "W", "a", "e", "f", "h", "k", "l", "o", "p", "r", "t", "u"} |->
          CASE c = "A" -> 65 [] c = "D" -> 68 [] c = "W" -> 87 [] c = "a" -> 97
            [] c = "e" -> 101 [] c = "f" -> 102 [] c = "h" -> 104 [] c = "k" -> 107
            [] c = "l" -> 108 [] c = "o" -> 111 [] c = "p" -> 112 [] c = "r" -> 114
            [] c = "t" -> 116 [] c = "u" -> 117]

\* Python's str.__lt__: the first differing code point decides, a proper prefix is less
StrLess(a, b) ==
    \E i \in 1..(Len(b)) :
        /\ \A j \in 1..(i - 1) : j <= Len(a) /\ a[j] = b[j]
        /\ \/ i = Len(a) + 1
           \/ i <= Len(a) /\ ord[a[i]] < ord[b[i]]

Default == <<"D", "e", "f", "a", "u", "l", "t">>
Alpha == <<"A", "l", "p", "h", "a">>
Work == <<"W", "o", "r", "k">>
Def == <<"D", "e", "f">>
alpha == <<"a", "l", "p", "h", "a">>

\* the names a user-data directory may hold
NameUniverse == {Default, Alpha, Work, Def, alpha}

----------------------------------------------------------------------------
(* The environment *)

getenv(env, key, default) == IF key \in DOMAIN env THEN env[key] ELSE default

\* line 24: the credential is absent or empty
MissingCredentialAbsentOnly(env) == "GOOGLE_API_KEY" \notin DOMAIN env

MissingCredential(env) == ~Truthy(getenv(env, "GOOGLE_API_KEY", None))

\* lines 28-37
ResolveBaseUserData(env, sys, dirOk) ==
    LET env_dir == getenv(env, "CHROME_USER_DATA_DIR", None) IN
    IF Truthy(env_dir) /\ dirOk THEN env_dir
    ELSE IF sys = "Windows"
         THEN getenv(env, "LOCALAPPDATA", <<>>) \o <<"Google", "Chrome", "User Data">>
    ELSE IF sys = "Darwin"
         THEN <<"~", "Library", "Application Support", "Google", "Chrome">>
    ELSE <<"~", ".config", "google-chrome">>

----------------------------------------------------------------------------
(* get_profiles, lines 40-46 *)

RECURSIVE Filter(_)
\* the list comprehension of line 42: the entries that are directories, in listing order
Filter(entries) ==
    IF entries = <<>> THEN <<>>
    ELSE IF Head(entries).isdir THEN <<Head(entries).name>> \o Filter(Tail(entries))
    ELSE Filter(Tail(entries))

RECURSIVE Insert(_, _)
Insert(x, sorted) ==
    IF sorted = <<>> THEN <<x>>
    ELSE IF StrLess(Head(sorted), x) THEN <<Head(sorted)>> \o Insert(x, Tail(sorted))
    ELSE <<x>> \o sorted

RECURSIVE Sort(_)
\* list.sort() of line 43
Sort(names) == IF names = <<>> THEN <<>> ELSE Insert(Head(names), Sort(Tail(names)))

get_profiles_unsorted(l) == IF l.ok THEN Filter(l.entries) ELSE <<Default>>

get_profiles(l) == IF l.ok THEN Sort(Filter(l.entries)) ELSE <<Default>>

----------------------------------------------------------------------------
(* choose_browser_config, lines 49-81 *)

\* line 51
DefaultCdpUrl == <<"http://localhost:9222">>

\* lines 62-66
DefaultChromePath(sys) ==
    IF sys = "Windows" THEN <<"C:\\Program Files\\Google\\Chrome\\Application\\chrome.exe">>
    ELSE IF sys = "Darwin" THEN <<"/Applications/Google Chrome.app/Contents/MacOS/Google Chrome">>
    ELSE IF sys = "Linux" THEN <<"/usr/bin/google-chrome">>
    ELSE None

WindowWidth == 1920
WindowHeight == 1080

\* lines 67-71; a flag is the text of the option followed by the text of its value
ExtraArgs(bud, profile) ==
    << <<"--user-data-dir=">> \o bud,
       <<"--profile-directory=">> \o profile,
       <<"--window-size=", "1920", ",", "1080">> >>

\* line 57: only cdp_url is passed
AttachConfig(cdp_url) == [cdp_url |-> cdp_url]

\* lines 74-81
LaunchConfig(env, sys, bud, profile) ==
    LET given == getenv(env, "CHROME_BINARY_PATH", None) IN
    [browser_binary_path |-> IF Truthy(given) THEN given ELSE DefaultChromePath(sys),
     headless |-> FALSE,
     extra_browser_args |-> ExtraArgs(bud, profile),
     new_context_config |-> [browser_window_size |->
                                [width |-> WindowWidth, height |-> WindowHeight]]]

\* the outcomes of client.get(..., timeout=2): a response with a status, or an exception
Response(status) == [raised |-> "no", status_code |-> status]
Raised(name) == [raised |-> name, status_code |-> 0]

\* line 54: the URL of the GET and what came of it
ProbeUrl(env) == getenv(env, "CDP_URL", DefaultCdpUrl) \o <<"/json/version">>
Get(url, outcome) == [url |-> url, raised |-> outcome.raised, status_code |-> outcome.status_code]
ProbeOutcomes ==
    {Response(200), Response(204), Response(404), Response(500),
     Raised("ConnectError"), Raised("ConnectTimeout"), Raised("ReadTimeout")}

NoProbe == Get(<<>>, Raised("not probed"))

choose_browser_config_attach_with_flags(profile, r, env, sys, bud) ==
    IF r.raised = "no" /\ r.status_code = 200
    THEN [cdp_url |-> getenv(env, "CDP_URL", DefaultCdpUrl),
          extra_browser_args |-> ExtraArgs(bud, profile)]
    ELSE LaunchConfig(env, sys, bud, profile)

choose_browser_config_any_response(profile, r, env, sys, bud) ==
    IF r.raised = "no"
    THEN AttachConfig(getenv(env, "CDP_URL", DefaultCdpUrl))
    ELSE LaunchConfig(env, sys, bud, profile)

choose_browser_config(profile, r, env, sys, bud) ==
    LET cdp_url == getenv(env, "CDP_URL", DefaultCdpUrl) IN
    IF r.raised = "no" /\ r.status_code = 200
    THEN AttachConfig(cdp_url)
    ELSE LaunchConfig(env, sys, bud, profile)

----------------------------------------------------------------------------
(* The return value of execute_task, lines 96-97 *)

RECURSIVE SplitFrom(_, _, _, _)
SplitFrom(s, i, cur, acc) ==
    IF i > Len(s) THEN (IF cur = <<>> THEN acc ELSE Append(acc, cur))
    ELSE IF s[i] = "\r" /\ i < Len(s) /\ s[i + 1] = "\n"
         THEN SplitFrom(s, i + 2, <<>>, Append(acc, cur))
    ELSE IF s[i] \in {"\n", "\r"}
         THEN SplitFrom(s, i + 1, <<>>, Append(acc, cur))
    ELSE SplitFrom(s, i + 1, Append(cur, s[i]), acc)

\* str.splitlines(): \n, \r and \r\n end a line; a last line without an end counts
\* when it is not empty
splitlines(s) == SplitFrom(s, 1, <<>>, <<>>)

RECURSIVE join(_, _)
\* sep.join(parts)
join(sep, parts) ==
    IF parts = <<>> THEN <<>>
    ELSE IF Len(parts) = 1 THEN parts[1]
    ELSE parts[1] \o sep \o join(sep, Tail(parts))

\* lines[k:] for a negative k
SliceFrom(lines, k) == SubSeq(lines, Max(Len(lines) + k, 0) + 1, Len(lines))

TailLines == 4

SummaryDropsOne(text) ==
    LET lines == splitlines(text) IN
    join(<<"\n">>, IF Len(lines) >= TailLines THEN SliceFrom(lines, 1 - TailLines) ELSE lines)

Summary(text) ==
    LET lines == splitlines(text) IN
    join(<<"\n">>, IF Len(lines) >= TailLines THEN SliceFrom(lines, 0 - TailLines) ELSE lines)

----------------------------------------------------------------------------
(* The chat transcript *)

\* line 131 writes a warning sign and "Error: " before the exception's text
ErrPrefix == <<"Error: ">>

\* line 128 writes a newline and the success marker after the logs
SuccessSuffix == <<"\n", "Task completed successfully!">>

UserMessage(text) == [role |-> "user", content |-> text]

ErrorContentNoText(e) == ErrPrefix

\* line 131
ErrorContent(e) == ErrPrefix \o e

\* line 128
SuccessContent(l) == l \o SuccessSuffix

AssistantMessage(text) == [role |-> "assistant", content |-> text]

\* lines 104-105: the select box shows the user's pick while it is among the options,
\* else the option at def_index; without options it yields None
Selectbox(options, pick) ==
    IF options = <<>> THEN None
    ELSE IF pick \in Range(options) THEN pick
    ELSE IF Default \in Range(options)
         THEN options[CHOOSE i \in 1..Len(options) : options[i] = Default]
    ELSE options[1]

----------------------------------------------------------------------------
(* Inputs *)

Systems == {"Windows", "Darwin", "Linux", "FreeBSD"}

EnvValues ==
    [GOOGLE_API_KEY |-> {<<>>, <<"key">>},
     CHROME_USER_DATA_DIR |-> {<<"/data", "chrome">>},
     CDP_URL |-> {<<"http://remote:9333">>},
     CHROME_BINARY_PATH |-> {<<>>, <<"/opt/chrome">>},
     LOCALAPPDATA |-> {<<"C:\\Users\\u\\AppData\\Local">>}]

\* every environment over the variables the script reads
Environs ==
    UNION {{env \in [keys -> UNION {EnvValues[k] : k \in DOMAIN EnvValues}] :
                \A k \in keys : env[k] \in EnvValues[k]} :
           keys \in SUBSET (DOMAIN EnvValues)}

Unreadable == [ok |-> FALSE, entries |-> <<>>]
Listed(entries) == [ok |-> TRUE, entries |-> entries]
Dir(name) == [name |-> name, isdir |-> TRUE]
File(name) == [name |-> name, isdir |-> FALSE]

\* os.listdir gives the entries in any order, each name once
AllListings ==
    {Unreadable} \cup
    {Listed(es) : es \in {s \in SeqsUpTo([name : NameUniverse, isdir : BOOLEAN], MaxEntries) :
                             \A i, j \in 1..Len(s) : s[i].name = s[j].name => i = j}}

\* the setups of a session: the environment does not change while the process runs
SessionSetups ==
    {[environ |-> ("CDP_URL" :> <<"http://remote:9333">>), system |-> "Linux",
      envDirOk |-> FALSE, listing |-> Unreadable],
     [environ |-> ("GOOGLE_API_KEY" :> <<>>), system |-> "Linux",
      envDirOk |-> FALSE, listing |-> Listed(<<Dir(Default)>>)],
     [environ |-> ("GOOGLE_API_KEY" :> <<"key">>), system |-> "Linux",
      envDirOk |-> FALSE, listing |-> Unreadable],
     [environ |-> ("GOOGLE_API_KEY" :> <<"key">>) @@ ("CHROME_USER_DATA_DIR" :> <<"/data", "chrome">>)
                   @@ ("CDP_URL" :> <<"http://remote:9333">>),
      system |-> "Windows", envDirOk |-> TRUE,
      listing |-> Listed(<<Dir(Work), File(Def), Dir(Default)>>)],
     [environ |-> ("GOOGLE_API_KEY" :> <<"key">>) @@ ("CHROME_BINARY_PATH" :> <<"/opt/chrome">>),
      system |-> "Darwin", envDirOk |-> FALSE, listing |-> Listed(<<File(Alpha)>>)]}

\* what the user types into the chat input
Inputs == {<<"open", " ", "example.org">>, <<"log", " ", "in">>}

\* what str(e) gives for the exceptions the executor raises
ExcTexts == {<<"net::ERR_CONNECTION_REFUSED">>, <<"429", " ", "quota">>}

\* what the agent prints: two lines, and six lines
Outputs ==
    {<<"a", "\n", "b">>,
     <<"a", "\n", "b", "\n", "c", "\r", "\n", "d", "\n", "e", "\n", "f", "\n">>}

OutputChars == {"a", "\n", "\r"}

NoConfig == [none |-> TRUE]

----------------------------------------------------------------------------
(* A script run, statement by statement *)

\* line 16
SetPageConfig ==
    /\ pc = "start"
    /\ ui' = Append(ui, "set_page_config")
    /\ pc' = "load_env"
    /\ UNCHANGED <<envVars, base_user_data, profiles, picked, selected_profile,
                   user_input, messages, turnVars, turns, calls, errs, probes,
                   handles, last_probe, inputs, pre>>

\* lines 23-37: raise EnvironmentError without the credential, else resolve the
\* user-data directory
LoadEnv ==
    /\ pc = "load_env"
    /\ IF MissingCredential(environ)
       THEN pc' = "aborted" /\ UNCHANGED base_user_data
       ELSE /\ pc' = "title"
            /\ base_user_data' = ResolveBaseUserData(environ, system, envDirOk)
    /\ UNCHANGED <<envVars, ui, profiles, picked, selected_profile, user_input,
                   messages, turnVars, turns, calls, errs, probes, handles,
                   last_probe, inputs, pre>>

\* lines 100-115: title, profile selector, the history, the chat input
RenderHeader ==
    /\ pc = "title"
    /\ profiles' = get_profiles(listing)
    /\ selected_profile' = Selectbox(profiles', picked)
    /\ ui' = ui \o <<"title", "selectbox">> \o [i \in 1..Len(messages) |-> "chat_message"]
                \o <<"chat_input">>
    /\ pc' = IF Truthy(user_input) THEN "submit" ELSE "footer"
    /\ UNCHANGED <<envVars, base_user_data, picked, user_input, messages, turnVars,
                   turns, calls, errs, probes, handles, last_probe, inputs, pre>>

\* lines 117-122
AppendUser ==
    /\ pc = "submit"
    /\ messages' = Append(messages, UserMessage(user_input))
    /\ ui' = ui \o <<"chat_message", "chat_message", "spinner">>
    /\ pc' = "probe"
    /\ UNCHANGED <<envVars, base_user_data, profiles, picked, selected_profile,
                   user_input, turnVars, turns, calls, errs, probes, handles,
                   last_probe, inputs, pre>>

\* a probe that is skipped once an earlier turn has found the endpoint
ProbeCached ==
    /\ pc = "probe"
    /\ \E r \in ProbeOutcomes :
          IF last_probe = "ok"
          THEN /\ resp' = Get(ProbeUrl(environ), r)
               /\ config' = AttachConfig(getenv(environ, "CDP_URL", DefaultCdpUrl))
               /\ probes' = probes
          ELSE /\ resp' = Get(ProbeUrl(environ), r)
               /\ config' = choose_browser_config(selected_profile, r, environ, system,
                                                  base_user_data)
               /\ probes' = probes + 1
    /\ calls' = calls + 1
    /\ pc' = "browser"
    /\ UNCHANGED <<envVars, ui, base_user_data, profiles, picked, selected_profile,
                   user_input, messages, browser, buf, logs, exc, turns, errs,
                   handles, last_probe, inputs, pre>>

\* lines 124 and 86: execute_task is called and runs choose_browser_config to its end
Probe ==
    /\ pc = "probe"
    /\ \E r \in ProbeOutcomes :
          /\ resp' = Get(ProbeUrl(environ), r)
          /\ config' = choose_browser_config(selected_profile, r, environ, system,
                                             base_user_data)
    /\ probes' = probes + 1
    /\ calls' = calls + 1
    /\ pc' = "browser"
    /\ UNCHANGED <<envVars, ui, base_user_data, profiles, picked, selected_profile,
                   user_input, messages, browser, buf, logs, exc, turns, errs,
                   handles, last_probe, inputs, pre>>

\* line 87
NewBrowser ==
    /\ pc = "browser"
    /\ browser' = "open"
    /\ handles' = handles + 1
    /\ pc' = "llm"
    /\ UNCHANGED <<envVars, ui, base_user_data, profiles, picked, selected_profile,
                   user_input, messages, resp, config, buf, logs, exc, turns, calls,
                   errs, probes, last_probe, inputs, pre>>

\* line 88
NewLLM ==
    /\ pc = "llm"
    /\ pc' = "agent"
    /\ UNCHANGED <<envVars, ui, base_user_data, profiles, picked, selected_profile,
                   user_input, messages, turnVars, turns, calls, errs, probes,
                   handles, last_probe, inputs, pre>>

\* line 89
NewAgent ==
    /\ pc = "agent"
    /\ pc' = "run"
    /\ UNCHANGED <<envVars, ui, base_user_data, profiles, picked, selected_profile,
                   user_input, messages, turnVars, turns, calls, errs, probes,
                   handles, last_probe, inputs, pre>>

\* lines 91-93: the agent runs to its end and its output is captured
RunAgent ==
    /\ pc = "run"
    /\ \E out \in Outputs : buf' = out
    /\ pc' = "close"
    /\ UNCHANGED <<envVars, ui, base_user_data, profiles, picked, selected_profile,
                   user_input, messages, resp, config, browser, logs, exc, turns,
                   calls, errs, probes, handles, last_probe, inputs, pre>>

\* line 94
CloseBrowser ==
    /\ pc = "close"
    /\ browser' = "closed"
    /\ handles' = handles - 1
    /\ pc' = "return"
    /\ UNCHANGED <<envVars, ui, base_user_data, profiles, picked, selected_profile,
                   user_input, messages, resp, config, buf, logs, exc, turns, calls,
                   errs, probes, last_probe, inputs, pre>>

\* lines 96-97
ReturnSummary ==
    /\ pc = "return"
    /\ logs' = Summary(buf)
    /\ pc' = "success"
    /\ UNCHANGED <<envVars, ui, base_user_data, profiles, picked, selected_profile,
                   user_input, messages, resp, config, browser, buf, exc, turns,
                   calls, errs, probes, handles, last_probe, inputs, pre>>

\* the statements of execute_task that can raise: lines 87, 88, 89, 93 and 94
RaisePoints == {"browser", "llm", "agent", "run", "close"}

\* one of lines 87-94 raises; execute_task has no handler, so control leaves it there
Raise ==
    /\ pc \in RaisePoints
    /\ \E e \in ExcTexts : exc' = e
    /\ errs' = errs + 1
    /\ pc' = "except"
    /\ UNCHANGED <<envVars, ui, base_user_data, profiles, picked, selected_profile,
                   user_input, messages, resp, config, browser, buf, logs, turns,
                   calls, probes, handles, last_probe, inputs, pre>>

\* a handler that puts the success message first in the transcript
HandlerSuccessPrepend ==
    /\ pc = "success"
    /\ ui' = ui \o <<"subheader", "code", "success">>
    /\ messages' = <<AssistantMessage(SuccessContent(logs))>> \o messages
    /\ pc' = "footer"
    /\ UNCHANGED <<envVars, base_user_data, profiles, picked, selected_profile,
                   user_input, turnVars, turns, calls, errs, probes, handles,
                   last_probe, inputs, pre>>

\* lines 125-129
HandlerSuccess ==
    /\ pc = "success"
    /\ ui' = ui \o <<"subheader", "code", "success">>
    /\ messages' = Append(messages, AssistantMessage(SuccessContent(logs)))
    /\ pc' = "footer"
    /\ UNCHANGED <<envVars, base_user_data, profiles, picked, selected_profile,
                   user_input, turnVars, turns, calls, errs, probes, handles,
                   last_probe, inputs, pre>>

\* a handler that shows the error and does not record it
HandlerExceptShowOnly ==
    /\ pc = "except"
    /\ ui' = Append(ui, "error")
    /\ pc' = "footer"
    /\ UNCHANGED <<envVars, base_user_data, profiles, picked, selected_profile,
                   user_input, messages, turnVars, turns, calls, errs, probes,
                   handles, last_probe, inputs, pre>>

\* lines 130-133
HandlerExcept ==
    /\ pc = "except"
    /\ ui' = Append(ui, "error")
    /\ messages' = Append(messages, AssistantMessage(ErrorContent(exc)))
    /\ pc' = "footer"
    /\ UNCHANGED <<envVars, base_user_data, profiles, picked, selected_profile,
                   user_input, turnVars, turns, calls, errs, probes, handles,
                   last_probe, inputs, pre>>

\* lines 135-136, the end of the script run: its globals and locals are gone, the
\* session state and the widget state stay
Footer ==
    /\ pc = "footer"
    /\ ui' = ui \o <<"markdown", "write">>
    /\ pc' = "done"
    /\ last_probe' = IF probes = 0 THEN last_probe
                     ELSE IF resp.raised = "no" /\ resp.status_code = 200 THEN "ok" ELSE "fail"
    /\ base_user_data' = None
    /\ profiles' = <<>>
    /\ selected_profile' = None
    /\ user_input' = None
    /\ resp' = NoProbe
    /\ config' = NoConfig
    /\ browser' = "none"
    /\ buf' = <<>>
    /\ logs' = <<>>
    /\ exc' = None
    /\ probes' = 0
    /\ UNCHANGED <<envVars, picked, messages, turns, calls, errs, handles, inputs, pre>>

\* the user submits a task in the chat input: the script runs again with it
Submit ==
    /\ pc = "done"
    /\ turns < MaxTurns
    /\ \E text \in Inputs :
          /\ user_input' = text
          /\ inputs' = Append(inputs, text)
    /\ turns' = turns + 1
    /\ pre' = messages
    /\ ui' = <<>>
    /\ pc' = "start"
    /\ UNCHANGED <<envVars, base_user_data, profiles, picked, selected_profile,
                   messages, turnVars, calls, errs, probes, handles, last_probe>>

\* the user picks another profile in the select box: the script runs again without
\* a chat input
SelectProfile ==
    /\ pc = "done"
    /\ \E p \in Range(get_profiles(listing)) :
          /\ p # picked
          /\ picked' = p
    /\ pre' = messages
    /\ ui' = <<>>
    /\ pc' = "start"
    /\ UNCHANGED <<envVars, base_user_data, profiles, selected_profile, user_input,
                   messages, turnVars, turns, calls, errs, probes, handles,
                   last_probe, inputs>>

----------------------------------------------------------------------------
(* Specifications *)

\* the state shared by every start: nothing has run yet
Fresh ==
    /\ ui = <<>>
    /\ base_user_data = None
    /\ profiles = <<>>
    /\ picked = None
    /\ selected_profile = None
    /\ user_input = None
    /\ messages = <<>>
    /\ resp = NoProbe
    /\ config = NoConfig
    /\ browser = "none"
    /\ buf = <<>>
    /\ logs = <<>>
    /\ exc = None
    /\ turns = 0
    /\ calls = 0
    /\ errs = 0
    /\ probes = 0
    /\ handles = 0
    /\ last_probe = "none"
    /\ inputs = <<>>
    /\ pre = <<>>

\* a session: the first script run begins
Init ==
    /\ \E s \in SessionSetups :
          /\ environ = s.environ
          /\ system = s.system
          /\ envDirOk = s.envDirOk
          /\ listing = s.listing
    /\ pc = "start"
    /\ Fresh

Next ==
    \/ SetPageConfig
    \/ LoadEnv
    \/ RenderHeader
    \/ AppendUser
    \/ Probe
    \/ NewBrowser
    \/ NewLLM
    \/ NewAgent
    \/ RunAgent
    \/ CloseBrowser
    \/ ReturnSummary
    \/ Raise
    \/ HandlerSuccess
    \/ HandlerExcept
    \/ Footer
    \/ Submit
    \/ SelectProfile

Spec == Init /\ [][Next]_vars

\* the credential is set, and the session's first submission has reached line 124
InitChooser ==
    /\ environ \in {env \in Environs : "GOOGLE_API_KEY" \in DOMAIN env /\ env["GOOGLE_API_KEY"] # <<>>}
    /\ system \in Systems
    /\ envDirOk \in {ok \in BOOLEAN : ok => "CHROME_USER_DATA_DIR" \in DOMAIN environ}
    /\ listing \in {Unreadable, Listed(<<>>),
                    Listed(<<Dir(Work), File(Def), Dir(Default), Dir(alpha)>>)}
    /\ pc = "probe"
    /\ ui = <<"set_page_config", "title", "selectbox", "chat_input", "chat_message",
              "chat_message", "spinner">>
    /\ base_user_data = ResolveBaseUserData(environ, system, envDirOk)
    /\ profiles = get_profiles(listing)
    /\ picked \in {None} \cup Range(profiles)
    /\ selected_profile = Selectbox(profiles, picked)
    /\ user_input \in Inputs
    /\ messages = <<UserMessage(user_input)>>
    /\ resp = NoProbe
    /\ config = NoConfig
    /\ browser = "none"
    /\ buf = <<>>
    /\ logs = <<>>
    /\ exc = None
    /\ turns = 1
    /\ calls = 0
    /\ errs = 0
    /\ probes = 0
    /\ handles = 0
    /\ last_probe = "none"
    /\ inputs = <<user_input>>
    /\ pre = <<>>

SpecChooser == InitChooser /\ [][Probe]_vars

\* the credential is set, and the session's first script run has reached line 100
InitProfiles ==
    /\ environ = ("GOOGLE_API_KEY" :> <<"key">>)
    /\ system \in Systems
    /\ envDirOk = FALSE
    /\ listing \in AllListings
    /\ pc = "title"
    /\ ui = <<"set_page_config">>
    /\ base_user_data = ResolveBaseUserData(environ, system, envDirOk)
    /\ profiles = <<>>
    /\ picked = None
    /\ selected_profile = None
    /\ user_input = None
    /\ messages = <<>>
    /\ resp = NoProbe
    /\ config = NoConfig
    /\ browser = "none"
    /\ buf = <<>>
    /\ logs = <<>>
    /\ exc = None
    /\ turns = 0
    /\ calls = 0
    /\ errs = 0
    /\ probes = 0
    /\ handles = 0
    /\ last_probe = "none"
    /\ inputs = <<>>
    /\ pre = <<>>

SpecProfiles == InitProfiles /\ [][RenderHeader]_vars

\* the session's first submission has reached line 96: the agent has run, its output
\* is captured and the browser is closed
InitSummary ==
    /\ environ = ("GOOGLE_API_KEY" :> <<"key">>)
    /\ system = "Linux"
    /\ envDirOk = FALSE
    /\ listing = Unreadable
    /\ pc = "return"
    /\ ui = <<"set_page_config", "title", "selectbox", "chat_input", "chat_message",
              "chat_message", "spinner">>
    /\ base_user_data = ResolveBaseUserData(environ, system, envDirOk)
    /\ profiles = get_profiles(listing)
    /\ picked = None
    /\ selected_profile = Selectbox(profiles, picked)
    /\ user_input \in Inputs
    /\ messages = <<UserMessage(user_input)>>
    /\ resp = Get(ProbeUrl(environ), Raised("ConnectError"))
    /\ config = choose_browser_config(selected_profile, resp, environ, system, base_user_data)
    /\ browser = "closed"
    /\ buf \in SeqsUpTo(OutputChars, MaxOutLen)
    /\ logs = <<>>
    /\ exc = None
    /\ turns = 1
    /\ calls = 1
    /\ errs = 0
    /\ probes = 1
    /\ handles = 0
    /\ last_probe = "none"
    /\ inputs = <<user_input>>
    /\ pre = <<>>

SpecSummary == InitSummary /\ [][ReturnSummary]_vars

----------------------------------------------------------------------------
(* Properties *)

NoCredential == "GOOGLE_API_KEY" \notin DOMAIN environ \/ environ["GOOGLE_API_KEY"] = <<>>

Ok200(r) == r.raised = "no" /\ r.status_code = 200

InTask == {"browser", "llm", "agent", "run", "close", "return", "success", "except"}

\* C1, as stated: without the credential no Streamlit command at all has been
\* executed when the start-up aborts.
C1_NoUiCommandBeforeAbort ==
    (NoCredential /\ pc = "aborted") => ui = <<>>

\* C1, amended: without the credential (absent or empty) the start-up never gets past
\* the check of line 24, and the page configuration of line 16 is the only Streamlit
\* command executed before the abort: no title, selector or chat rendering, and the
\* transcript stays empty.
C1_OnlyPageConfigBeforeAbort ==
    NoCredential =>
        /\ pc \in {"start", "load_env", "aborted"}
        /\ ui \in {<<>>, <<"set_page_config">>}
        /\ pc = "aborted" => ui = <<"set_page_config">>
        /\ messages = <<>>

C1_Witness == NoCredential /\ pc = "aborted" /\ ui = <<"set_page_config">>

IsErrorMessage(m) == m.role = "assistant" /\ IsPrefix(<<"Error: ">>, m.content)

\* C2: when execute_task raises, the messages the transcript held before are
\* unmodified, and once the handler has run the transcript is the one the script run
\* began with, the user's message, and exactly one error message, whose content
\* contains the exception's text.
C2_ErrorAppendsOneMessage ==
    /\ pc = "except" => messages = Append(pre, UserMessage(user_input))
    /\ (pc = "footer" /\ exc # None) =>
          /\ Len(messages) = Len(pre) + 2
          /\ SubSeq(messages, 1, Len(pre)) = pre
          /\ messages[Len(pre) + 1] = UserMessage(user_input)
          /\ Cardinality({i \in (Len(pre) + 1)..Len(messages) : IsErrorMessage(messages[i])}) = 1
          /\ IsErrorMessage(messages[Len(messages)])
          /\ Contains(messages[Len(messages)].content, exc)

C2_Witness ==
    /\ pc = "footer"
    /\ exc # None
    /\ Len(pre) = 2
    /\ Len(messages) = 4
    /\ Contains(messages[4].content, exc)

\* C3: when the GET of <debug-url>/json/version returns 200, the configuration holds
\* the debug URL that was probed and nothing else, whatever profile is selected.
C3_AttachOn200 ==
    (pc = "browser" /\ Ok200(resp)) =>
        /\ DOMAIN config = {"cdp_url"}
        /\ config.cdp_url \o <<"/json/version">> = resp.url
        /\ config.cdp_url = getenv(environ, "CDP_URL", <<"http://localhost:9222">>)

C3_Witness ==
    /\ pc = "browser"
    /\ Ok200(resp)
    /\ selected_profile = Work
    /\ "CDP_URL" \in DOMAIN environ
    /\ DOMAIN config = {"cdp_url"}

\* C4: when the GET raises or returns another status than 200, choose_browser_config
\* returns (it does not raise) a launch configuration that does not depend on the
\* kind of failure: not headless, with the flags --user-data-dir=<base_user_data>,
\* --profile-directory=<selected profile> and --window-size=1920,1080, and a
\* 1920x1080 viewport.
C4_LaunchOnProbeFailure ==
    (pc = "browser" /\ ~Ok200(resp)) =>
        /\ DOMAIN config = {"browser_binary_path", "headless", "extra_browser_args",
                            "new_context_config"}
        /\ config.headless = FALSE
        /\ config.extra_browser_args =
              << <<"--user-data-dir=">> \o base_user_data,
                 <<"--profile-directory=">> \o selected_profile,
                 <<"--window-size=", "1920", ",", "1080">> >>
        /\ config.new_context_config.browser_window_size = [width |-> 1920, height |-> 1080]

C4_Witness ==
    /\ pc = "browser"
    /\ resp.raised = "ConnectTimeout"
    /\ selected_profile = Work
    /\ "CHROME_USER_DATA_DIR" \in DOMAIN environ
    /\ envDirOk
    /\ <<"--profile-directory=">> \o Work \in Range(config.extra_browser_args)

DirNames(l) == {l.entries[i].name : i \in {j \in 1..Len(l.entries) : l.entries[j].isdir}}

\* C5: get_profiles returns the names of the subdirectories of a readable user-data
\* directory, each once, files left out, in ascending lexicographic order, and
\* returns the one-element list of "Default" when the directory cannot be read.
C5_ProfilesSortedOrDefault ==
    pc \in {"submit", "footer"} =>
        IF listing.ok
        THEN /\ Range(profiles) = DirNames(listing)
             /\ Len(profiles) = Cardinality(DirNames(listing))
             /\ \A i, j \in 1..Len(profiles) : i < j => StrLess(profiles[i], profiles[j])
        ELSE profiles = <<Default>>

C5_Witness ==
    /\ pc = "footer"
    /\ listing = Listed(<<Dir(Default), Dir(Work), Dir(Alpha)>>)
    /\ profiles = <<Alpha, Default, Work>>

\* C6: the summary execute_task returns is the last min(n, 4) of the n captured
\* lines, in their order, joined with newlines.
C6_SummaryIsLastFourLines ==
    pc = "success" =>
        LET lines == splitlines(buf)
            n == Len(lines)
            k == Min(n, 4)
        IN  logs = join(<<"\n">>, [i \in 1..k |-> lines[n - k + i]])

C6_Witness ==
    /\ pc = "success"
    /\ Len(splitlines(buf)) = 6
    /\ Len(splitlines(logs)) = 4

\* C7: an exception of execute_task ends the turn, not the session: when a script run
\* ends, execute_task has been called once for every submission so far and the
\* transcript holds one user and one assistant message for each, whatever number of
\* the calls raised; and after a call has raised the next submission is accepted.
C7_ErrorsEndOnlyTheTurn ==
    /\ pc = "done" =>
          /\ calls = turns
          /\ Len(messages) = 2 * turns
          /\ Cardinality({i \in 1..Len(messages) : messages[i].role = "assistant"}) = turns
          /\ errs <= turns
    /\ (pc = "done" /\ errs > 0 /\ turns < MaxTurns) => ENABLED Submit
    /\ errs > 0 => pc # "aborted"

C7_Witness ==
    /\ pc = "footer"
    /\ turns = 2
    /\ errs = 1
    /\ exc = None
    /\ calls = 2
    /\ Len(messages) = 4
    /\ IsErrorMessage(messages[2])
    /\ ~IsErrorMessage(messages[4])

\* C8, as stated: a browser handle that execute_task created is closed when
\* execute_task returns or raises, and no handle is open when a turn begins.
C8_HandleClosedOnExit ==
    /\ (pc \in {"success", "except"} /\ browser # "none") => browser = "closed"
    /\ pc = "probe" => handles = 0

\* C9: in every turn the probe is made exactly once, before the browser handle is
\* created and before the agent runs, and the configuration is the attach one exactly
\* when this turn's probe returned 200, with this turn's profile in the launch flags.
C9_ProbeEveryTurn ==
    /\ pc = "probe" => probes = 0 /\ browser = "none" /\ buf = <<>>
    /\ browser # "none" => probes = 1
    /\ pc \in InTask =>
          /\ probes = 1
          /\ resp.url = getenv(environ, "CDP_URL", <<"http://localhost:9222">>) \o <<"/json/version">>
          /\ ("cdp_url" \in DOMAIN config) <=> Ok200(resp)
          /\ ~Ok200(resp) =>
                config.extra_browser_args[2] = <<"--profile-directory=">> \o selected_profile

C9_Witness ==
    /\ pc = "browser"
    /\ last_probe = "ok"
    /\ ~Ok200(resp)
    /\ "browser_binary_path" \in DOMAIN config

\* C10: when a script run has ended after k submissions, the transcript holds 2k
\* messages, user and assistant in turn, the i-th user message is the i-th submitted
\* input; and the transcript a script run began with is a prefix of the transcript
\* at every later point of the run.
C10_TranscriptShape ==
    /\ IsPrefix(pre, messages)
    /\ Len(inputs) = turns
    /\ pc = "done" =>
          /\ Len(messages) = 2 * turns
          /\ \A i \in 1..turns :
                /\ messages[2 * i - 1] = UserMessage(inputs[i])
                /\ messages[2 * i].role = "assistant"

C10_Witness ==
    /\ pc = "done"
    /\ turns = 2
    /\ errs = 1
    /\ inputs[1] # inputs[2]
    /\ Len(messages) = 4

====
